---- MODULE Spec2Model ----
(***************************************************************************)
(* Model of the SD Tennis backend: the /api/analyze upload handler          *)
(* (app.py), the analysis pipeline (analysis_pipeline.py) and the prompt    *)
(* builder (coaching_prompt.py).                                            *)
(*                                                                          *)
(* Conventions.  A Python str is a tuple of one-character strings, so that  *)
(* rsplit, lower, strip, slicing, replace and title are computed.  A Python *)
(* value that may be None is a tuple: <<>> is None, <<v>> is the value v.   *)
(* A dict is a function whose DOMAIN is its key set.  Times are integers in *)
(* milliseconds.                                                            *)
(***************************************************************************)
EXTENDS Integers, Sequences, FiniteSets, TLC

(***************************************************************************)
(* Bounds of the model                                                      *)
(***************************************************************************)
NumThreads == 2
NumUuids == 2

Threads == 1..NumThreads
Uuids == 1..NumUuids

(***************************************************************************)
(* Program constants                                                        *)
(***************************************************************************)
FRAMES_TO_EXTRACT == 10
MAX_VIDEO_DURATION == 120
NameCap == 50
ConcernsCap == 500

None == <<>>
Some(v) == <<v>>

Min(a, b) == IF a < b THEN a ELSE b

(***************************************************************************)
(* Characters and the str methods the program uses                          *)
(***************************************************************************)
LowerChars == <<"a","b","c","d","e","f","g","h","i","j","k","l","m",
                "n","o","p","q","r","s","t","u","v","w","x","y","z">>
UpperChars == <<"A","B","C","D","E","F","G","H","I","J","K","L","M",
                "N","O","P","Q","R","S","T","U","V","W","X","Y","Z">>
Digits == <<"0","1","2","3","4","5","6","7","8","9">>

IsUpper(c) == \E i \in 1..26 : UpperChars[i] = c
IsLower(c) == \E i \in 1..26 : LowerChars[i] = c
IsCased(c) == IsUpper(c) \/ IsLower(c)
IsDigit(c) == \E i \in 1..10 : Digits[i] = c
IsSpace(c) == c = " "

LowerChar(c) == IF IsUpper(c) THEN LowerChars[CHOOSE i \in 1..26 : UpperChars[i] = c] ELSE c
UpperChar(c) == IF IsLower(c) THEN UpperChars[CHOOSE i \in 1..26 : LowerChars[i] = c] ELSE c

\* str.lower()
lower(s) == [i \in 1..Len(s) |-> LowerChar(s[i])]

\* str.replace(old, new) for one-character old and new
replace(s, old, new) == [i \in 1..Len(s) |-> IF s[i] = old THEN new ELSE s[i]]

\* str.title(): a cased character is upper-cased when it follows an uncased
\* one (or starts the string) and lower-cased otherwise
title(s) ==
    [i \in 1..Len(s) |->
        IF i = 1 \/ ~IsCased(s[i-1]) THEN UpperChar(s[i]) ELSE LowerChar(s[i])]

\* str.strip(): leading and trailing whitespace removed
strip(s) ==
    IF \A i \in 1..Len(s) : IsSpace(s[i]) THEN <<>>
    ELSE LET a == CHOOSE i \in 1..Len(s) :
                      ~IsSpace(s[i]) /\ \A j \in 1..(i-1) : IsSpace(s[j])
             b == CHOOSE i \in 1..Len(s) :
                      ~IsSpace(s[i]) /\ \A j \in (i+1)..Len(s) : IsSpace(s[j])
         IN SubSeq(s, a, b)

\* s[:n]
Slice(s, n) == SubSeq(s, 1, Min(n, Len(s)))

\* '.' in filename
HasDot(s) == \E i \in 1..Len(s) : s[i] = "."

\* filename.rsplit('.', 1)[1], defined when the name has a dot
RsplitExt(s) ==
    LET k == CHOOSE i \in 1..Len(s) :
                 s[i] = "." /\ \A j \in (i+1)..Len(s) : s[j] # "."
    IN SubSeq(s, k + 1, Len(s))

\* int(text) for the decimal texts of the model: the value, or None for the
\* texts on which int raises ValueError
ParseInt(s) ==
    LET RECURSIVE Val(_)
        Val(n) == IF n = 0 THEN 0
                  ELSE 10 * Val(n - 1) + ((CHOOSE i \in 1..10 : Digits[i] = s[n]) - 1)
    IN IF Len(s) > 0 /\ \A i \in 1..Len(s) : IsDigit(s[i])
       THEN Some(Val(Len(s))) ELSE None

(***************************************************************************)
(* app.py: configuration and allowed_file                                   *)
(***************************************************************************)
ALLOWED_EXTENSIONS ==
    { <<"m","p","4">>, <<"m","o","v">>, <<"a","v","i">>,
      <<"m","k","v">>, <<"m","4","v">>, <<"w","e","b","m">> }

\* variant: any name with a dot passes
allowed_file_any_dot(filename) == HasDot(filename)

allowed_file(filename) ==
    HasDot(filename) /\ lower(RsplitExt(filename)) \in ALLOWED_EXTENSIONS


secure_filename(filename) ==
    LET Strippable(c) == c = "." \/ c = "_"
    IN IF \A i \in 1..Len(filename) : Strippable(filename[i]) THEN <<>>
       ELSE LET a == CHOOSE i \in 1..Len(filename) :
                         ~Strippable(filename[i])
                         /\ \A j \in 1..(i-1) : Strippable(filename[j])
                b == CHOOSE i \in 1..Len(filename) :
                         ~Strippable(filename[i])
                         /\ \A j \in (i+1)..Len(filename) : Strippable(filename[j])
            IN SubSeq(filename, a, b)

\* request.form.get(key) is truthy
FormHas(form, key) == key \in DOMAIN form /\ form[key] # <<>>

\* student_info as built from the form fields
BuildStudentInfo(form) ==
    LET keys == { k \in {"name", "level", "concerns"} : FormHas(form, k) }
                \cup { k \in {"age"} : FormHas(form, k) /\ ParseInt(form[k]) # None }
    IN [k \in keys |->
           CASE k = "name" -> Slice(strip(form[k]), NameCap)
             [] k = "age" -> ParseInt(form[k])[1]
             [] k = "level" -> form[k]
             [] k = "concerns" -> Slice(strip(form[k]), ConcernsCap)]

S_general == <<"g","e","n","e","r","a","l">>

\* request.form.get('stroke_type', 'general')
StrokeTypeOf(form) ==
    IF "stroke_type" \in DOMAIN form THEN form["stroke_type"] ELSE S_general

(***************************************************************************)
(* coaching_prompt.py                                                       *)
(***************************************************************************)
S_forehand == <<"f","o","r","e","h","a","n","d">>
S_backhand_one_handed == <<"b","a","c","k","h","a","n","d","_","o","n","e","_","h","a","n","d","e","d">>
S_backhand_two_handed == <<"b","a","c","k","h","a","n","d","_","t","w","o","_","h","a","n","d","e","d">>
S_serve == <<"s","e","r","v","e">>
S_volley == <<"v","o","l","l","e","y">>

KnownStrokes ==
    { S_forehand, S_backhand_one_handed, S_backhand_two_handed,
      S_serve, S_volley, S_general }

\* the instruction fragments, each named by its first distinguishing line
STROKE_CONTEXT ==
    [k \in KnownStrokes |->
        CASE k = S_forehand -> "Grip type (Eastern, Semi-Western, Western)"
          [] k = S_backhand_one_handed -> "Shoulder turn is CRITICAL"
          [] k = S_backhand_two_handed -> "Non-dominant arm driving the shot"
          [] k = S_serve -> "Toss consistency is the #1 serve problem"
          [] k = S_volley -> "Compact backswing"
          [] k = S_general -> "Analyze whatever strokes are most visible"]

\* variant: the fallback entry is the first key of the table
stroke_addition_first_key(stroke_type) ==
    IF stroke_type \in DOMAIN STROKE_CONTEXT THEN STROKE_CONTEXT[stroke_type]
    ELSE STROKE_CONTEXT[S_forehand]

\* STROKE_CONTEXT.get(stroke_type, STROKE_CONTEXT["general"])
stroke_addition(stroke_type) ==
    IF stroke_type \in DOMAIN STROKE_CONTEXT THEN STROKE_CONTEXT[stroke_type]
    ELSE STROKE_CONTEXT[S_general]

\* stroke_type.replace('_', ' ').title()
stroke_label(stroke_type) == title(replace(stroke_type, "_", " "))

DefaultName == <<"t","h","e"," ","s","t","u","d","e","n","t">>
DefaultLevel == <<"i","n","t","e","r","m","e","d","i","a","t","e">>
PlaceholderName == <<"S","t","u","d","e","n","t">>

\* the STUDENT PROFILE block: None when student_info is falsy
student_context(student_info) ==
    IF DOMAIN student_info = {} THEN None
    ELSE Some([ name |-> IF "name" \in DOMAIN student_info
                         THEN student_info["name"] ELSE DefaultName,
                level |-> IF "level" \in DOMAIN student_info
                          THEN student_info["level"] ELSE DefaultLevel,
                age_line |-> IF "age" \in DOMAIN student_info
                                /\ student_info["age"] # 0
                             THEN Some(student_info["age"]) ELSE None,
                notes_line |-> IF "concerns" \in DOMAIN student_info
                                  /\ student_info["concerns"] # <<>>
                               THEN Some(student_info["concerns"]) ELSE None ])

build_user_prompt(frames_count, stroke_type, student_info) ==
    [ student_context |-> student_context(student_info),
      frames_count |-> frames_count,
      stroke_line |-> stroke_label(stroke_type),
      stroke_addition |-> stroke_addition(stroke_type) ]


(***************************************************************************)
(* analysis_pipeline.py: exceptions and the except clauses of the pipeline  *)
(***************************************************************************)
\* direct base class of each exception class the model raises
Parent ==
    [c \in { "FileNotFoundError", "OSError", "RuntimeError", "JSONDecodeError",
             "ValueError", "KeyError", "IndexError", "LookupError",
             "TimeoutExpired", "SubprocessError", "APIStatusError",
             "APIConnectionError", "APIError", "AnthropicError", "Exception" } |->
        CASE c = "FileNotFoundError" -> "OSError"
          [] c = "JSONDecodeError" -> "ValueError"
          [] c \in {"KeyError", "IndexError"} -> "LookupError"
          [] c = "TimeoutExpired" -> "SubprocessError"
          [] c \in {"APIStatusError", "APIConnectionError"} -> "APIError"
          [] c = "APIError" -> "AnthropicError"
          [] c = "Exception" -> "BaseException"
          [] OTHER -> "Exception"]

RECURSIVE IsInstance(_, _)
IsInstance(cls, base) ==
    IF cls = base THEN TRUE
    ELSE IF cls \in DOMAIN Parent THEN IsInstance(Parent[cls], base)
    ELSE FALSE

Raise(cls, msg) == [raised |-> TRUE, class |-> cls, msg |-> msg]

\* the except clauses of analyze_tennis_video, tried in source order
ErrorPrefix(cls) ==
    IF IsInstance(cls, "FileNotFoundError") THEN "Video file not found: "
    ELSE IF IsInstance(cls, "RuntimeError") THEN "Processing error: "
    ELSE IF IsInstance(cls, "APIError") THEN "Claude API error: "
    ELSE "Unexpected error: "

\* variant: the failure dict is built without its message
FailureResultNoMessage(exc) ==
    [ success |-> FALSE, error |-> None, analysis |-> None ]

FailureResult(exc) ==
    [ success |-> FALSE,
      error |-> <<ErrorPrefix(exc.class), exc.msg>>,
      analysis |-> None ]

\* variant: the name is read without its default
SuccessResultNoDefault(analysis, frames, stroke_type, student_info) ==
    [ success |-> TRUE,
      analysis |-> Some(analysis),
      frames_analyzed |-> Len(frames),
      stroke_type |-> stroke_type,
      student_name |-> IF DOMAIN student_info # {}
                       THEN (IF "name" \in DOMAIN student_info
                             THEN student_info["name"] ELSE <<>>)
                       ELSE PlaceholderName,
      error |-> None ]

SuccessResult(analysis, frames, stroke_type, student_info) ==
    [ success |-> TRUE,
      analysis |-> Some(analysis),
      frames_analyzed |-> Len(frames),
      stroke_type |-> stroke_type,
      student_name |-> IF DOMAIN student_info # {}
                       THEN (IF "name" \in DOMAIN student_info
                             THEN student_info["name"] ELSE PlaceholderName)
                       ELSE PlaceholderName,
      error |-> None ]

(***************************************************************************)
(* analysis_pipeline.py: get_video_duration and extract_frames              *)
(***************************************************************************)
\* The uploaded bytes, as far as the tools see them: what ffprobe prints for
\* the file (probe), the container duration it reports and the length of
\* the decodable video stream, both in milliseconds.
Video(probe, duration, vlen) == [probe |-> probe, duration |-> duration, vlen |-> vlen]

\* the tools installed on the host
Hosts == {"ok", "no_ffprobe", "no_ffmpeg"}

\* get_video_duration: the returncode is not looked at; json.loads, the two
\* subscripts and float() raise on the output of a failed probe
get_video_duration(video, host) ==
    IF host = "no_ffprobe" THEN Raise("FileNotFoundError", "ffprobe")
    ELSE IF video.probe = "empty_stdout" THEN Raise("JSONDecodeError", "Expecting value")
    ELSE IF video.probe = "no_format" THEN Raise("KeyError", "format")
    ELSE IF video.probe = "na_duration" THEN Raise("ValueError", "could not convert string to float")
    ELSE [raised |-> FALSE, duration |-> video.duration]

\* variant: the cap is not applied
CapDurationMissing(duration) == duration

\* if duration > MAX_VIDEO_DURATION: duration = MAX_VIDEO_DURATION
CapDuration(duration) ==
    IF duration > MAX_VIDEO_DURATION * 1000 THEN MAX_VIDEO_DURATION * 1000
    ELSE duration

\* f"{interval:.2f}" with interval = duration / num_frames: the interval in
\* hundredths of a second.  An exactly half-way value is decided by the
\* binary float, which the milliseconds do not show: tie says which way.
FormatInterval(duration, num_frames, tie) ==
    LET unit == 10 * num_frames
        q == duration \div unit
        r == duration % unit
    IN IF 2 * r < unit THEN q
       ELSE IF 2 * r > unit THEN q + 1
       ELSE IF tie = "up" THEN q + 1 ELSE q

\* variant: -vframes asks for one frame too many
FfmpegCmdOneMore(interval_cs, num_frames) ==
    [ fps_interval_cs |-> interval_cs, vframes |-> num_frames + 1 ]

\* the command line of the ffmpeg call: -vf fps=1/<interval> -vframes <n>
FfmpegCmd(interval_cs, num_frames) ==
    [ fps_interval_cs |-> interval_cs, vframes |-> num_frames ]

\* ffmpeg with fps=1/<interval> and -vframes <n>: one frame per interval
\* from the start of the video stream, at most n of them
FfmpegFrameCount(vlen, cmd) ==
    IF vlen = 0 THEN 0
    ELSE Min(cmd.vframes, ((vlen - 1) \div (cmd.fps_interval_cs * 10)) + 1)

\* the subprocess.run of ffmpeg and the loading of the frame files; run is
\* the way the process ends ("ok", "exit_nonzero", "timeout").  A frame is
\* modelled by the time in the video it was taken at.
RunFfmpeg(video, cmd, host, run) ==
    IF host = "no_ffmpeg" THEN Raise("FileNotFoundError", "ffmpeg")
    ELSE IF run = "timeout" THEN Raise("TimeoutExpired", "ffmpeg timed out")
    ELSE IF cmd.fps_interval_cs = 0 \/ run = "exit_nonzero"
         THEN Raise("RuntimeError", "FFmpeg failed")
    ELSE LET n == FfmpegFrameCount(video.vlen, cmd)
         IN IF n = 0
            THEN Raise("RuntimeError", "No frames were extracted. Check video format.")
            ELSE [ raised |-> FALSE,
                   frames |-> [i \in 1..n |-> (i - 1) * cmd.fps_interval_cs * 10] ]

\* extract_frames; the outcome carries the ffmpeg command when one was issued
extract_frames(exists, video, num_frames, host, tie, run) ==
    IF ~exists THEN Raise("FileNotFoundError", "Video not found")
    ELSE LET probe == get_video_duration(video, host)
         IN IF probe.raised THEN probe
            ELSE LET duration == CapDuration(probe.duration)
                     interval_cs == FormatInterval(duration, num_frames, tie)
                     cmd == FfmpegCmd(interval_cs, num_frames)
                     out == RunFfmpeg(video, cmd, host, run)
                 IN [k \in DOMAIN out \cup {"cmd"} |->
                        IF k = "cmd" THEN cmd ELSE out[k]]


(***************************************************************************)
(* analysis_pipeline.py: analyze_frames_with_claude                         *)
(***************************************************************************)
\* the content list: each frame as an image block followed by its
\* "[Frame k]" label, then the text block with the user prompt
BuildContent(frames_b64, stroke_type, info) ==
    [ blocks |-> [i \in 1..(2 * Len(frames_b64)) |->
                     IF i % 2 = 1
                     THEN [type |-> "image", data |-> frames_b64[(i + 1) \div 2]]
                     ELSE [type |-> "text", data |-> i \div 2]],
      user_prompt |-> build_user_prompt(Len(frames_b64), stroke_type, info) ]

\* What client.messages.create and response.content[0].text can do: return a
\* text, or raise.  The exception classes are those of the client library
\* (APIStatusError, APIConnectionError), of the subscript on an empty
\* content list (IndexError) and a RuntimeError raised below the call.
RemoteOutcomes ==
    { [raised |-> FALSE, text |-> "## Overall Assessment"],
      [raised |-> FALSE, text |-> ""] }
    \cup { Raise(c, "remote") :
             c \in {"APIStatusError", "APIConnectionError", "IndexError", "RuntimeError"} }

(***************************************************************************)
(* Requests                                                                 *)
(***************************************************************************)
Filenames ==
    { <<>>, <<"c",".","t","x","t">>, <<"c",".","m","p","4">>, <<"c",".","M","P","4">>, <<"m","p","4">>,
      <<"a",".","m","p","4",".","t","x","t">>, <<"a",".","b",".","m","o","v">>, <<".","w","e","b","m">>, <<"c",".">> }

Videos ==
    { Video("empty_stdout", 0, 0), Video("no_format", 0, 0), Video("na_duration", 0, 0),
      Video("ok", 0, 0), Video("ok", 40, 40), Video("ok", 150, 150),
      Video("ok", 1000, 1000), Video("ok", 30000, 30000), Video("ok", 30000, 0),
      Video("ok", 30000, 10000), Video("ok", 120000, 120000),
      Video("ok", 150000, 150000) }

LongName == [i \in 1..(NameCap + 3) |-> IF i = 1 THEN " " ELSE "x"]

\* the student fields of the form
StudentForms ==
    { <<>>,
      [k \in {"name"} |-> <<" ","A","l"," ">>],
      [k \in {"name"} |-> <<" ", " ">>],
      [k \in {"age"} |-> <<"1", "6">>],
      [k \in {"age"} |-> <<"x">>],
      [k \in {"name", "level"} |->
          CASE k = "name" -> <<>>
            [] k = "level" -> <<"p", "r", "o">>],
      [k \in {"name", "age", "level", "concerns"} |->
          CASE k = "name" -> LongName
            [] k = "age" -> <<"0">>
            [] k = "level" -> <<"p", "r", "o">>
            [] k = "concerns" -> <<" ", "n", "e", "t", " ">>] }

\* the stroke_type field: absent (None) or a text
StrokeFields ==
    { None, Some(S_general), Some(S_forehand), Some(S_backhand_one_handed),
      Some(<<"l","o","b">>), Some(<<"G","E","N","E","R","A","L">>), Some(<<>>) }

FormOf(fields, stroke) ==
    [k \in DOMAIN fields \cup (IF stroke = None THEN {} ELSE {"stroke_type"}) |->
        IF k = "stroke_type" THEN stroke[1] ELSE fields[k]]

Forms == { FormOf(f, s) : f \in StudentForms, s \in StrokeFields }

Request(has_video, filename, form, video, too_large) ==
    [ has_video |-> has_video, filename |-> filename, form |-> form,
      video |-> video, too_large |-> too_large ]

NoRequest == Request(FALSE, <<>>, <<>>, Video("ok", 0, 0), FALSE)

Requests ==
    { Request(TRUE, <<"c",".","m","p","4">>, f, Video("ok", 1000, 1000), TRUE) : f \in Forms }
    \cup { Request(FALSE, <<>>, f, Video("ok", 0, 0), FALSE) : f \in Forms }
    \cup { Request(TRUE, n, f, v, FALSE) : n \in Filenames, f \in Forms, v \in Videos }


(***************************************************************************)
(* State                                                                    *)
(***************************************************************************)
VARIABLES
    pc,            \* where each handler thread is
    request,       \* the request a thread is handling
    student_info,  \* analyze(): student_info
    stroke_type,   \* analyze(): stroke_type
    video_path,    \* analyze(): video_path, <<uuid hex, secure file name>>
    scratch,       \* UPLOAD_FOLDER: path -> file
    frames,        \* analyze_tennis_video(): frames
    ffmpeg_cmd,    \* the ffmpeg command issued for the request, if any
    sent,          \* the content handed to client.messages.create, if any
    result,        \* what analyze_tennis_video returned, if it has
    response,      \* the HTTP response of the request, if sent
    written,       \* history: the scratch paths the request has written
    fault          \* history: the stage and class of the exception raised

vars == << pc, request, student_info, stroke_type, video_path, scratch, frames,
           ffmpeg_cmd, sent, result, response, written, fault >>

handler_locals == << student_info, stroke_type, video_path >>
pipeline_state == << frames, ffmpeg_cmd, sent, result >>

Init ==
    /\ pc = [t \in Threads |-> "idle"]
    /\ request = [t \in Threads |-> NoRequest]
    /\ student_info = [t \in Threads |-> <<>>]
    /\ stroke_type = [t \in Threads |-> <<>>]
    /\ video_path = [t \in Threads |-> None]
    /\ scratch = <<>>
    /\ frames = [t \in Threads |-> <<>>]
    /\ ffmpeg_cmd = [t \in Threads |-> None]
    /\ sent = [t \in Threads |-> None]
    /\ result = [t \in Threads |-> None]
    /\ response = [t \in Threads |-> None]
    /\ written = [t \in Threads |-> {}]
    /\ fault = [t \in Threads |-> None]

Response(status, body) == [status |-> status, body |-> body]

\* jsonify({'success': False, 'error': message})
ErrorBody(message) == [success |-> FALSE, error |-> message]

\* variant: the finally clause removes nothing
UnlinkSkipped(dir, path) == dir

\* video_path.exists() / video_path.unlink() of the finally clause
Unlink(dir, path) == [p \in DOMAIN dir \ {path} |-> dir[p]]

\* video_file.save(): the file at path holds the upload
WriteFile(dir, path, file) ==
    [p \in DOMAIN dir \cup {path} |-> IF p = path THEN file ELSE dir[p]]

\* variant: the scratch name is not made unique
FreshUuidsAny == Uuids

\* uuid4 values are taken not to repeat among the files and requests alive
FreshUuids ==
    { u \in Uuids : /\ \A p \in DOMAIN scratch : p[1] # u
                    /\ \A t \in Threads : video_path[t] = None \/ video_path[t][1][1] # u }

(***************************************************************************)
(* A client sends a request.  Requests are served one at a time here.       *)
(***************************************************************************)
Receive(t) ==
    /\ \A u \in Threads : pc[u] = "idle"
    /\ \E r \in Requests : request' = [request EXCEPT ![t] = r]
    /\ pc' = [pc EXCEPT ![t] = "validating"]
    /\ UNCHANGED << handler_locals, scratch, pipeline_state, response, written, fault >>

(***************************************************************************)
(* analyze(), up to the try: validation, the form fields, the scratch path  *)
(***************************************************************************)
Validate(t) ==
    /\ pc[t] = "validating"
    /\ LET r == request[t]
           Reject(status, message) ==
               /\ response' = [response EXCEPT ![t] = Some(Response(status, ErrorBody(message)))]
               /\ pc' = [pc EXCEPT ![t] = "responded"]
               /\ UNCHANGED handler_locals
       IN IF r.too_large
          THEN Reject(413, <<"Video file is too large. Please keep it under 500MB.">>)
          ELSE IF ~r.has_video
          THEN Reject(400, <<"No video file uploaded">>)
          ELSE IF r.filename = <<>>
          THEN Reject(400, <<"No file selected">>)
          ELSE IF ~allowed_file(r.filename)
          THEN Reject(400, <<"Unsupported file format. Please upload MP4, MOV, or AVI.">>)
          ELSE /\ student_info' = [student_info EXCEPT ![t] = BuildStudentInfo(r.form)]
               /\ stroke_type' = [stroke_type EXCEPT ![t] = StrokeTypeOf(r.form)]
               /\ \E u \in FreshUuids :
                     video_path' = [video_path EXCEPT
                                       ![t] = Some(<<u, secure_filename(r.filename)>>)]
               /\ pc' = [pc EXCEPT ![t] = "saving"]
               /\ UNCHANGED response
    /\ UNCHANGED << request, scratch, pipeline_state, written, fault >>

(***************************************************************************)
(* video_file.save(str(video_path)): the upload is written, or the save     *)
(* raises with the file created in part or not at all                       *)
(***************************************************************************)
SaveUpload(t) ==
    /\ pc[t] = "saving"
    /\ LET path == video_path[t][1]
           file == [video |-> request[t].video, writer |-> t]
       IN \E how \in {"ok", "raise_partial", "raise_nothing"} :
             /\ IF how = "raise_nothing"
                THEN UNCHANGED << scratch, written >>
                ELSE /\ scratch' = WriteFile(scratch, path, file)
                     /\ written' = [written EXCEPT ![t] = @ \cup {path}]
             /\ IF how = "ok"
                THEN /\ pc' = [pc EXCEPT ![t] = "extracting"]
                     /\ UNCHANGED fault
                ELSE /\ pc' = [pc EXCEPT ![t] = "save_raised"]
                     /\ fault' = [fault EXCEPT ![t] = Some([stage |-> "save", class |-> "OSError"])]
    /\ UNCHANGED << request, handler_locals, pipeline_state, response >>

(***************************************************************************)
(* analyze_tennis_video, step 1: extract_frames, and the except clauses     *)
(***************************************************************************)
ExtractFrames(t) ==
    /\ pc[t] = "extracting"
    /\ LET path == video_path[t][1]
           exists == path \in DOMAIN scratch
           video == IF exists THEN scratch[path].video ELSE NoRequest.video
       IN \E host \in Hosts, tie \in {"down", "up"}, run \in {"ok", "exit_nonzero", "timeout"} :
             LET out == extract_frames(exists, video, FRAMES_TO_EXTRACT, host, tie, run)
                 stage == IF ~exists THEN "missing_file"
                          ELSE IF get_video_duration(video, host).raised THEN "probe"
                          ELSE "ffmpeg"
             IN /\ ffmpeg_cmd' = [ffmpeg_cmd EXCEPT ![t] =
                                     IF "cmd" \in DOMAIN out THEN Some(out.cmd) ELSE None]
                /\ IF out.raised
                   THEN /\ result' = [result EXCEPT ![t] = Some(FailureResult(out))]
                        /\ fault' = [fault EXCEPT ![t] = Some([stage |-> stage, class |-> out.class])]
                        /\ pc' = [pc EXCEPT ![t] = "returning"]
                        /\ UNCHANGED frames
                   ELSE /\ frames' = [frames EXCEPT ![t] = out.frames]
                        /\ pc' = [pc EXCEPT ![t] = "analyzing"]
                        /\ UNCHANGED << result, fault >>
    /\ UNCHANGED << request, handler_locals, scratch, sent, response, written >>

(***************************************************************************)
(* analyze_tennis_video, step 2: analyze_frames_with_claude, the success    *)
(* dict and the except clauses                                              *)
(***************************************************************************)
\* variant: a failed remote call sends the pipeline back to extraction
AnalyzeFramesRetry(t) ==
    /\ pc[t] = "analyzing"
    /\ LET info == student_info[t]
           content == BuildContent(frames[t], stroke_type[t], info)
       IN /\ sent' = [sent EXCEPT ![t] = Some(content)]
          /\ \E out \in RemoteOutcomes :
                IF out.raised
                THEN /\ pc' = [pc EXCEPT ![t] = "extracting"]
                     /\ UNCHANGED << result, fault >>
                ELSE /\ result' = [result EXCEPT ![t] =
                                      Some(SuccessResult(out.text, frames[t], stroke_type[t], info))]
                     /\ pc' = [pc EXCEPT ![t] = "returning"]
                     /\ UNCHANGED fault
    /\ UNCHANGED << request, handler_locals, scratch, frames, ffmpeg_cmd, response, written >>

AnalyzeFrames(t) ==
    /\ pc[t] = "analyzing"
    /\ LET info == student_info[t]
           content == BuildContent(frames[t], stroke_type[t], info)
       IN /\ sent' = [sent EXCEPT ![t] = Some(content)]
          /\ \E out \in RemoteOutcomes :
                IF out.raised
                THEN /\ result' = [result EXCEPT ![t] = Some(FailureResult(out))]
                     /\ fault' = [fault EXCEPT ![t] = Some([stage |-> "remote", class |-> out.class])]
                ELSE /\ result' = [result EXCEPT ![t] =
                                      Some(SuccessResult(out.text, frames[t], stroke_type[t], info))]
                     /\ UNCHANGED fault
    /\ pc' = [pc EXCEPT ![t] = "returning"]
    /\ UNCHANGED << request, handler_locals, scratch, frames, ffmpeg_cmd, response, written >>

(***************************************************************************)
(* analyze(): the pipeline has returned; the status is chosen from          *)
(* result['success'] and the finally clause removes the upload              *)
(***************************************************************************)
\* variant: the handler answers 200 whatever the result says
StatusOfAlwaysOk(res) == 200

StatusOf(res) == IF res.success THEN 200 ELSE 500

Return(t) ==
    /\ pc[t] = "returning"
    /\ response' = [response EXCEPT ![t] = Some(Response(StatusOf(result[t][1]), result[t][1]))]
    /\ scratch' = Unlink(scratch, video_path[t][1])
    /\ pc' = [pc EXCEPT ![t] = "responded"]
    /\ UNCHANGED << request, handler_locals, pipeline_state, written, fault >>

(***************************************************************************)
(* analyze(): the except clause of the handler, then the finally clause     *)
(***************************************************************************)
HandleException(t) ==
    /\ pc[t] = "save_raised"
    /\ response' = [response EXCEPT ![t] =
                       Some(Response(500, ErrorBody(<<"Server error: ", "save failed">>)))]
    /\ scratch' = Unlink(scratch, video_path[t][1])
    /\ pc' = [pc EXCEPT ![t] = "responded"]
    /\ UNCHANGED << request, handler_locals, pipeline_state, written, fault >>

(***************************************************************************)
(* The response has gone out; the thread is free for the next request       *)
(***************************************************************************)
Close(t) ==
    /\ pc[t] = "responded"
    /\ pc' = [pc EXCEPT ![t] = "idle"]
    /\ request' = [request EXCEPT ![t] = NoRequest]
    /\ student_info' = [student_info EXCEPT ![t] = <<>>]
    /\ stroke_type' = [stroke_type EXCEPT ![t] = <<>>]
    /\ video_path' = [video_path EXCEPT ![t] = None]
    /\ frames' = [frames EXCEPT ![t] = <<>>]
    /\ ffmpeg_cmd' = [ffmpeg_cmd EXCEPT ![t] = None]
    /\ sent' = [sent EXCEPT ![t] = None]
    /\ result' = [result EXCEPT ![t] = None]
    /\ response' = [response EXCEPT ![t] = None]
    /\ written' = [written EXCEPT ![t] = {}]
    /\ fault' = [fault EXCEPT ![t] = None]
    /\ UNCHANGED scratch

Next ==
    \E t \in Threads :
        \/ Receive(t)
        \/ Validate(t)
        \/ SaveUpload(t)
        \/ ExtractFrames(t)
        \/ AnalyzeFrames(t)
        \/ Return(t)
        \/ HandleException(t)
        \/ Close(t)

Spec == Init /\ [][Next]_vars

(***************************************************************************)
(* Concurrent requests: the server handles each request on its own thread,  *)
(* so a request may arrive while others are in flight.  The uploads share   *)
(* one file name, which leaves the uuid prefix to tell the scratch files    *)
(* apart.                                                                   *)
(***************************************************************************)
ConcurrentRequests ==
    { Request(TRUE, <<"c",".","m","p","4">>, <<>>, Video("ok", 1000, 1000), FALSE),
      Request(TRUE, <<"c",".","m","p","4">>, <<>>, Video("no_format", 0, 0), FALSE),
      Request(TRUE, <<"c",".","t","x","t">>, <<>>, Video("ok", 1000, 1000), FALSE) }

ReceiveConcurrent(t) ==
    /\ pc[t] = "idle"
    /\ \E r \in ConcurrentRequests : request' = [request EXCEPT ![t] = r]
    /\ pc' = [pc EXCEPT ![t] = "validating"]
    /\ UNCHANGED << handler_locals, scratch, pipeline_state, response, written, fault >>

NextConcurrent ==
    \E t \in Threads :
        \/ ReceiveConcurrent(t)
        \/ Validate(t)
        \/ SaveUpload(t)
        \/ ExtractFrames(t)
        \/ AnalyzeFrames(t)
        \/ Return(t)
        \/ HandleException(t)
        \/ Close(t)

SpecConcurrent == Init /\ [][NextConcurrent]_vars


(***************************************************************************)
(* Vocabulary of the properties                                             *)
(***************************************************************************)
Responded(t) == pc[t] = "responded"
Resp(t) == response[t][1]
Res(t) == result[t][1]

\* the name ends in a dot followed by one of the six extensions, in any case
EndsInAllowedExtension(filename) ==
    \E e \in { <<"m","p","4">>, <<"m","o","v">>, <<"a","v","i">>, <<"m","k","v">>, <<"m","4","v">>, <<"w","e","b","m">> } :
        /\ Len(filename) > Len(e)
        /\ filename[Len(filename) - Len(e)] = "."
        /\ \A i \in 1..Len(e) :
              LowerChar(filename[Len(filename) - Len(e) + i]) = e[i]

\* the upload is one that validation has to reject
ValidationRejects(r) ==
    /\ ~r.too_large
    /\ \/ ~r.has_video
       \/ r.filename = <<>>
       \/ ~EndsInAllowedExtension(r.filename)

EnvelopeKeys ==
    {"success", "analysis", "frames_analyzed", "stroke_type", "student_name", "error"}

ProcessingPrefix == "Processing error: "
RemotePrefix == "Claude API error: "

(***************************************************************************)
(* C1: a request whose upload validation rejects (no 'video' field, empty   *)
(* filename, extension outside the allow-list) is answered 400 with         *)
(* success=false, and at no point of the request has a file been written    *)
(* to the scratch directory.                                                *)
(***************************************************************************)
C1_RejectedUploadWritesNothing ==
    \A t \in Threads :
        (pc[t] # "idle" /\ ValidationRejects(request[t])) =>
            /\ written[t] = {}
            /\ pc[t] \in {"validating", "responded"}
            /\ Responded(t) => /\ Resp(t).status = 400
                               /\ Resp(t).body.success = FALSE

C1_Witness ==
    \E t \in Threads :
        /\ Responded(t)
        /\ request[t].has_video
        /\ request[t].filename = <<"c",".","t","x","t">>
        /\ Resp(t).status = 400

(***************************************************************************)
(* C2: once the handler of an accepted upload has returned, the temporary   *)
(* file it wrote is not in the scratch directory, whichever way it exited.  *)
(***************************************************************************)
C2_UploadGoneAfterReturn ==
    \A t \in Threads :
        (Responded(t) /\ video_path[t] # None) =>
            /\ video_path[t][1] \notin DOMAIN scratch
            /\ \A p \in written[t] : p \notin DOMAIN scratch

C2_Witness ==
    \E t \in Threads :
        /\ Responded(t)
        /\ written[t] # {}
        /\ fault[t] # None
        /\ fault[t][1].stage = "save"

(***************************************************************************)
(* C3: every response body carries all six keys success, analysis,          *)
(* frames_analyzed, stroke_type, student_name and error.                    *)
(***************************************************************************)
C3_EveryResponseHasSixKeys ==
    \A t \in Threads :
        Responded(t) => DOMAIN Resp(t).body = EnvelopeKeys

(***************************************************************************)
(* C4: in every result of analyze_tennis_video exactly one of analysis and  *)
(* error is non-null: success=true goes with analysis and no error,         *)
(* success=false with an error and no analysis.                             *)
(***************************************************************************)
C4_AnalysisXorError ==
    \A t \in Threads :
        result[t] # None =>
            /\ {"success", "analysis", "error"} \subseteq DOMAIN Res(t)
            /\ (Res(t).analysis # None) # (Res(t).error # None)
            /\ Res(t).success => (Res(t).analysis # None /\ Res(t).error = None)
            /\ ~Res(t).success => (Res(t).error # None /\ Res(t).analysis = None)

C4_Witness ==
    \E t \in Threads :
        /\ result[t] # None
        /\ ~Res(t).success
        /\ fault[t] # None
        /\ fault[t][1].stage = "remote"

(***************************************************************************)
(* C5: the status of POST /api/analyze follows the outcome: 400 for every   *)
(* validation failure, 500 for every processing, remote or unexpected       *)
(* failure, 200 only on success; the status is 200 exactly when the body    *)
(* has success=true.                                                        *)
(***************************************************************************)
C5_StatusFollowsOutcome ==
    \A t \in Threads :
        Responded(t) =>
            /\ Resp(t).status \in {200, 400, 413, 500}
            /\ (Resp(t).status = 200) <=> (Resp(t).body.success = TRUE)
            /\ (Resp(t).status = 400) <=> ValidationRejects(request[t])
            /\ (Resp(t).status = 500) <=> (fault[t] # None)
            /\ (Resp(t).status = 200) <=> (result[t] # None /\ Res(t).success)

C5_Witness ==
    \E t \in Threads :
        /\ Responded(t)
        /\ Resp(t).status = 200
        /\ Resp(t).body.success = TRUE

(***************************************************************************)
(* C6: a request whose stroke_type is outside the six known values runs as  *)
(* the request with stroke_type="general" and otherwise equal inputs does.  *)
(* The general twin below is that other run, taken with the same frames     *)
(* and the same reply of the model.                                         *)
(***************************************************************************)
UnknownStroke(t) ==
    stroke_type[t] \notin
        { S_forehand, S_backhand_one_handed, S_backhand_two_handed,
          S_serve, S_volley, S_general }

TwinPrompt(t) == build_user_prompt(Len(frames[t]), S_general, student_info[t])

TwinResult(t) ==
    IF Res(t).success
    THEN SuccessResult(Res(t).analysis[1], frames[t], S_general, student_info[t])
    ELSE Res(t)

\* as claimed: the prompt and the result are those of the general twin
C6_UnknownStrokeSameAsGeneral ==
    \A t \in Threads :
        (pc[t] \in {"returning", "responded"} /\ UnknownStroke(t)) =>
            /\ sent[t] # None => sent[t][1].user_prompt = TwinPrompt(t)
            /\ result[t] # None => Res(t) = TwinResult(t)

\* as the code has it: the instruction fragment is the general one and the
\* prompt and the result agree with the twin's in everything but the
\* "Stroke type:" line and the stroke_type field, which carry the submitted
\* value
C6_UnknownStrokeGetsGeneralFragment ==
    \A t \in Threads :
        (pc[t] \in {"returning", "responded"} /\ UnknownStroke(t)) =>
            /\ sent[t] # None =>
                  LET p == sent[t][1].user_prompt
                  IN /\ p.stroke_addition = "Analyze whatever strokes are most visible"
                     /\ p.stroke_addition = TwinPrompt(t).stroke_addition
                     /\ p.student_context = TwinPrompt(t).student_context
                     /\ p.frames_count = TwinPrompt(t).frames_count
                     /\ p.stroke_line = title(replace(stroke_type[t], "_", " "))
            /\ (result[t] # None /\ Res(t).success) =>
                  /\ \A k \in EnvelopeKeys \ {"stroke_type"} : Res(t)[k] = TwinResult(t)[k]
                  /\ Res(t).stroke_type = StrokeTypeOf(request[t].form)
            /\ (result[t] # None /\ ~Res(t).success) => Res(t) = TwinResult(t)

C6_Witness ==
    \E t \in Threads :
        /\ Responded(t)
        /\ stroke_type[t] = <<"l","o","b">>
        /\ sent[t] # None
        /\ sent[t][1].user_prompt.stroke_line = <<"L","o","b">>
        /\ Res(t).success

(***************************************************************************)
(* C7: when the duration probe fails, the result has success=false,         *)
(* analysis=null and an error of the processing-error category.             *)
(***************************************************************************)
\* ffprobe ran and its output held no usable duration
ProbeFailed(t) ==
    /\ fault[t] # None
    /\ fault[t][1].stage = "probe"
    /\ fault[t][1].class \in {"JSONDecodeError", "KeyError", "ValueError"}

C7_ProbeFailureIsProcessingError ==
    \A t \in Threads :
        (result[t] # None /\ ProbeFailed(t)) =>
            /\ Res(t).success = FALSE
            /\ Res(t).analysis = None
            /\ Res(t).error[1] = ProcessingPrefix

(***************************************************************************)
(* C8: a failure of the remote call is never reported in the                *)
(* processing-error category, and a failure of frame extraction is never    *)
(* reported in the remote-provider category.                                *)
(***************************************************************************)
C8_RemoteAndLocalFailuresApart ==
    \A t \in Threads :
        (result[t] # None /\ fault[t] # None) =>
            /\ fault[t][1].stage = "remote" => Res(t).error[1] # ProcessingPrefix
            /\ fault[t][1].stage \in {"missing_file", "probe", "ffmpeg"} =>
                  Res(t).error[1] # RemotePrefix

(***************************************************************************)
(* C9: in a successful run frames_analyzed is the number of frames sent to  *)
(* the model, lies between 1 and the configured count, and equals the       *)
(* configured count unless the video has fewer distinct sampling points.    *)
(***************************************************************************)
\* the sampling points 0, interval, 2*interval, ... that fall inside the
\* video stream, among the first FRAMES_TO_EXTRACT
SamplingPointsInVideo(t) ==
    { k \in 0..(FRAMES_TO_EXTRACT - 1) :
        k * ffmpeg_cmd[t][1].fps_interval_cs * 10 < request[t].video.vlen }

ImagesSent(t) ==
    { i \in 1..Len(sent[t][1].blocks) : sent[t][1].blocks[i].type = "image" }

C9_FramesAnalyzed ==
    \A t \in Threads :
        (result[t] # None /\ Res(t).success) =>
            /\ sent[t] # None
            /\ Res(t).frames_analyzed = Cardinality(ImagesSent(t))
            /\ Res(t).frames_analyzed >= 1
            /\ Res(t).frames_analyzed <= FRAMES_TO_EXTRACT
            /\ Res(t).frames_analyzed = Cardinality(SamplingPointsInVideo(t))

C9_Witness ==
    \E t \in Threads :
        /\ result[t] # None /\ Res(t).success
        /\ Res(t).frames_analyzed = 4
        /\ request[t].video.duration = 30000

(***************************************************************************)
(* C10: a video longer than MAX_VIDEO_DURATION is sampled inside its first  *)
(* 120 seconds: the interval is min(duration, 120) / N, N frames are asked  *)
(* for, every sampling point is below 120 s, and the video is processed,    *)
(* not refused.                                                             *)
(***************************************************************************)
CapMs == MAX_VIDEO_DURATION * 1000

\* extract_frames has run on an over-length upload whose duration was probed
OverLength(t) ==
    /\ pc[t] \in {"analyzing", "returning", "responded"}
    /\ video_path[t] # None
    /\ fault[t] = None \/ fault[t][1].stage \notin {"save", "missing_file", "probe"}
    /\ request[t].video.probe = "ok"
    /\ request[t].video.duration > CapMs

C10_LongVideoSampledInsideCap ==
    \A t \in Threads :
        /\ OverLength(t) => ffmpeg_cmd[t] # None
        /\ OverLength(t) /\ ffmpeg_cmd[t] # None =>
              LET cmd == ffmpeg_cmd[t][1]
              IN /\ cmd.fps_interval_cs * 10 * FRAMES_TO_EXTRACT = CapMs
                 /\ cmd.vframes = FRAMES_TO_EXTRACT
                 /\ \A k \in 0..(cmd.vframes - 1) : k * cmd.fps_interval_cs * 10 < CapMs
                 /\ \A i \in 1..Len(frames[t]) : frames[t][i] < CapMs
        /\ OverLength(t) /\ fault[t] # None => fault[t][1].stage \in {"ffmpeg", "remote"}
        /\ OverLength(t) /\ (fault[t] = None \/ fault[t][1].stage = "remote") =>
              Len(frames[t]) = FRAMES_TO_EXTRACT
        \* every probed video: the interval is min(duration, cap) / N, to the
        \* hundredth of a second
        /\ (ffmpeg_cmd[t] # None) =>
              LET x == Min(request[t].video.duration, CapMs)
                  d == ffmpeg_cmd[t][1].fps_interval_cs * 10 * FRAMES_TO_EXTRACT - x
              IN d <= 5 * FRAMES_TO_EXTRACT /\ -d <= 5 * FRAMES_TO_EXTRACT

C10_Witness ==
    \E t \in Threads :
        /\ OverLength(t)
        /\ result[t] # None /\ Res(t).success
        /\ Res(t).frames_analyzed = FRAMES_TO_EXTRACT
        /\ frames[t][FRAMES_TO_EXTRACT] = 108000


(***************************************************************************)
(* C11: in every successful response student_name is "Student" when the     *)
(* request carried no name, whatever other student fields it carried; when  *)
(* it carried a name, student_name is that name with the surrounding        *)
(* whitespace removed, cut to at most 50 characters.                        *)
(***************************************************************************)
NameSupplied(r) == "name" \in DOMAIN r.form /\ r.form["name"] # <<>>

OtherFieldsSupplied(r) ==
    \E k \in {"age", "level", "concerns"} : k \in DOMAIN r.form /\ r.form[k] # <<>>

\* n is raw without its leading and trailing blanks, cut to at most cap
IsTrimmedAndCut(raw, n, cap) ==
    \E a \in 0..Len(raw), b \in 0..Len(raw) :
        /\ \A i \in 1..a : raw[i] = " "
        /\ \A i \in (b + 1)..Len(raw) : raw[i] = " "
        /\ a < b => (raw[a + 1] # " " /\ raw[b] # " ")
        /\ a >= b => n = <<>>
        /\ a < b => /\ Len(n) = (IF b - a < cap THEN b - a ELSE cap)
                    /\ \A i \in 1..Len(n) : n[i] = raw[a + i]

C11_StudentName ==
    \A t \in Threads :
        (Responded(t) /\ Resp(t).body.success) =>
            /\ ~NameSupplied(request[t]) =>
                  Resp(t).body.student_name = <<"S","t","u","d","e","n","t">>
            /\ NameSupplied(request[t]) =>
                  /\ Len(Resp(t).body.student_name) <= 50
                  /\ IsTrimmedAndCut(request[t].form["name"], Resp(t).body.student_name, 50)

C11_Witness ==
    \E t \in Threads :
        /\ Responded(t) /\ Resp(t).body.success
        /\ ~NameSupplied(request[t])
        /\ OtherFieldsSupplied(request[t])
        /\ DOMAIN student_info[t] # {}
        /\ Resp(t).body.student_name = <<"S","t","u","d","e","n","t">>


(***************************************************************************)
(* C12: the pipeline only moves forward through extracting, analyzing and   *)
(* done ("returning" here): the remote call starts only after extraction    *)
(* has succeeded, no state is entered again, an exception in extracting or  *)
(* analyzing leads straight to done with success=false, analysis=null and   *)
(* nothing of a partial result, and analyze_tennis_video returns a dict     *)
(* instead of raising.                                                      *)
(***************************************************************************)
InPipeline(p) == p \in {"extracting", "analyzing", "returning"}

PipelineStep(t) ==
    \* forward only, one state at a time or straight to done
    /\ (pc[t] = "extracting" /\ pc'[t] # pc[t]) => pc'[t] \in {"analyzing", "returning"}
    /\ (pc[t] = "analyzing" /\ pc'[t] # pc[t]) => pc'[t] = "returning"
    /\ (pc[t] = "returning" /\ pc'[t] # pc[t]) => ~InPipeline(pc'[t])
    /\ (pc'[t] = "extracting" /\ pc[t] # pc'[t]) => pc[t] = "saving"
    \* the remote call is started from analyzing, with the extracted frames
    /\ (pc'[t] = "analyzing" /\ pc[t] # pc'[t]) =>
          /\ pc[t] = "extracting"
          /\ frames'[t] # <<>>
          /\ sent'[t] = None /\ result'[t] = None /\ fault'[t] = None
    /\ (sent'[t] # None /\ sent[t] = None) =>
          /\ pc[t] = "analyzing"
          /\ frames[t] # <<>>
          /\ Len(sent'[t][1].blocks) = 2 * Len(frames[t])
    \* an exception ends the pipeline at once, with a failure and no more
    /\ (InPipeline(pc[t]) /\ fault'[t] # fault[t]) =>
          /\ pc'[t] = "returning"
          /\ result'[t] # None
          /\ result'[t][1].success = FALSE
          /\ result'[t][1].analysis = None
          /\ result'[t][1].error # None
          /\ DOMAIN result'[t][1] = {"success", "error", "analysis"}
    /\ (pc[t] = "extracting" /\ pc'[t] = "returning") => fault'[t] # None
    \* the pipeline always hands a dict back to the handler
    /\ pc'[t] = "returning" => result'[t] # None
    /\ (InPipeline(pc[t]) /\ pc'[t] # pc[t] /\ ~InPipeline(pc'[t])) =>
          (pc[t] = "returning" /\ pc'[t] = "responded")
    /\ (pc[t] = "returning" /\ pc'[t] = "returning") => result'[t] = result[t]

C12_PipelineMovesForward == [][\A t \in Threads : PipelineStep(t)]_vars

C12_Witness ==
    \E t \in Threads :
        /\ pc[t] = "returning"
        /\ fault[t] # None /\ fault[t][1].stage = "ffmpeg"
        /\ frames[t] = <<>>
        /\ sent[t] = None
        /\ Res(t).success = FALSE /\ Res(t).analysis = None


(***************************************************************************)
(* C13: under any interleaving of concurrent requests each request writes,  *)
(* reads and deletes only its own scratch file: a pipeline never reads      *)
(* another request's upload, and a cleanup never removes a file that        *)
(* another request, still running, wrote.                                   *)
(***************************************************************************)
\* the file a pipeline is about to read is there and is the one its own
\* request saved; no two requests in flight have the same scratch path
ReadsOwnUpload ==
    /\ \A t \in Threads :
          pc[t] = "extracting" =>
              /\ video_path[t][1] \in DOMAIN scratch
              /\ scratch[video_path[t][1]].writer = t
              /\ scratch[video_path[t][1]].video = request[t].video
    /\ \A t \in Threads, u \in Threads :
          (t # u /\ video_path[t] # None /\ video_path[u] # None) =>
              video_path[t][1] # video_path[u][1]
    /\ \A p \in DOMAIN scratch :
          /\ pc[scratch[p].writer] \in {"save_raised", "extracting", "analyzing", "returning"}
          /\ video_path[scratch[p].writer] = Some(p)

\* a step creates, overwrites or removes only the file of the request that
\* takes the step
TouchesOwnFileOnly ==
    /\ \A p \in DOMAIN scratch' \ DOMAIN scratch :
          \E t \in Threads :
              /\ pc[t] = "saving" /\ pc'[t] # "saving"
              /\ video_path[t] = Some(p)
              /\ scratch'[p].writer = t
    /\ \A p \in DOMAIN scratch \cap DOMAIN scratch' : scratch'[p] = scratch[p]
    /\ \A p \in DOMAIN scratch \ DOMAIN scratch' :
          \E t \in Threads :
              /\ pc[t] \in {"returning", "save_raised"} /\ pc'[t] = "responded"
              /\ video_path[t] = Some(p)
              /\ scratch[p].writer = t

C13_OwnScratchFileOnly == []ReadsOwnUpload /\ [][TouchesOwnFileOnly]_vars

\* two uploads of the same name in flight, one cleaned up while the other's
\* file is still there for its pipeline
C13_Witness ==
    \E t \in Threads, u \in Threads :
        /\ t # u
        /\ Responded(t) /\ written[t] # {}
        /\ pc[u] = "analyzing"
        /\ video_path[u][1] \in DOMAIN scratch
        /\ video_path[u][1][2] = video_path[t][1][2]

====
